---- MODULE Spec2Model ----
(***************************************************************************)
(* Deep Research API: the FastAPI layer (api/main.py), the MCP adapter     *)
(* (mcp-server/server.py) and the workflow graph they drive.               *)
(*                                                                         *)
(* The API layer and the MCP adapter are translated from their sources.    *)
(* The workflow graph itself (research_core.workflow, research_core.graph) *)
(* is imported by the API but its code is not part of the source tree; it  *)
(* is modelled from sections 3, 4.1, 4.4 and 5 of the specification.       *)
(***************************************************************************)
EXTENDS Integers, Sequences, FiniteSets, TLC

\* ---------------------------------------------------------------- bounds
\* Size of the identifier space uuid4 draws research ids from.
MaxRuns == 2
\* Longest plan (number of steps) the planner model returns.
MaxSteps == 2
\* Largest max_plan_iterations a client puts in a request.
MaxPlanIter == 2

\* ------------------------------------------------------------- constants
\* Number of prompt renderings and tool calls the agents make in all.
MaxCalls == 2

\* Settings.default_max_plan_iterations
default_max_plan_iterations == 1
\* Settings.default_max_step_num
default_max_step_num == 5
\* execute_deep_research: arguments.get("max_steps", 5)
deep_default_max_steps == 5
\* execute_quick_research: "max_step_num": 2
quick_max_step_num == 2

\* ------------------------------------------------------- python optionals
\* An Optional[T] is a sequence of length <= 1: <<>> is None, <<v>> is v.
NoneV == <<>>
Some(v) == <<v>>

\* Python's `x or d` on an Optional[int]: None and 0 are both falsy.
OrDefault(x, d) == IF x = NoneV \/ x[1] = 0 THEN d ELSE x[1]

\* Python's `x if x is not None else d` on an Optional[bool].
IfNotNone(x, d) == IF x # NoneV THEN x[1] ELSE d

\* Settings.enable_background_investigation
settings_enable_background_investigation == TRUE
\* Settings.enable_clarification
settings_enable_clarification == TRUE

VARIABLES
    arrivals,   \* the calls the clients are still going to make, in order
    requests,   \* the requests the API has received, in order of receipt
    wf,         \* research id -> WorkflowState of that run
    inputs,     \* request slot -> the external responses its run consumed
    api,        \* request slot -> the endpoint handler's own state
    store,      \* research id -> the checkpoint saved at its last suspension
    agents,     \* the agents create_agent built, and the state they are invoked on
    mcp         \* the calls of the MCP call_tool handler, in order of entry

vars == <<arrivals, requests, wf, inputs, api, store, agents, mcp>>

RunIds == 1..MaxRuns
Endpoints == {"sync", "stream"}

\* ------------------------------------------------------------ data model
\* ResearchRequest: the fields of the body that reach the workflow.
Bodies ==
    [max_step_num : {NoneV, Some(0), Some(1)},
     max_plan_iterations : {NoneV} \cup {Some(n) : n \in -1..MaxPlanIter},
     auto_accept_plan : BOOLEAN,
     enable_clarification : {NoneV, Some(FALSE)},
     enable_background_investigation : {NoneV, Some(TRUE), Some(FALSE)}]

\* A request that leaves every optional field unset.
DefaultBody ==
    [max_step_num |-> NoneV,
     max_plan_iterations |-> NoneV,
     auto_accept_plan |-> TRUE,
     enable_clarification |-> NoneV,
     enable_background_investigation |-> NoneV]

StepTypes == {"research", "processing"}

\* A Step of the workflow's plan; log is the history of its statuses.
NewStep(t) ==
    [step_type |-> t, status |-> "pending", execution_result |-> NoneV,
     log |-> <<"pending">>]

UnsetPlan == [kind |-> "unset", has_enough_context |-> FALSE, steps |-> <<>>]

\* ----------------------------------------------------- external responses
\* What a capability provider (model, search, tool) answers to one node.
Ext(kind) == [kind |-> kind, rep |-> "", has_enough_context |-> FALSE, steps |-> <<>>]

SeqsUpTo(S, n) == UNION {[1..k -> S] : k \in 0..n}

\* The planner model's answers: a well-formed plan, or malformed output on
\* every attempt of the retry budget.  In the second case current_plan is
\* left as it was, holds the raw draft, or holds a structured placeholder.
PlannerAnswers ==
    {[kind |-> "plan", rep |-> "", has_enough_context |-> h, steps |-> ts] :
        h \in BOOLEAN, ts \in SeqsUpTo(StepTypes, MaxSteps)}
    \cup {[kind |-> "malformed", rep |-> r, has_enough_context |-> FALSE, steps |-> <<>>] :
        r \in {"unchanged", "raw", "structured"}}

\* ------------------------------------------------- workflow graph (4.1)
\* WorkflowState at the entry of a run.  The API supplies auto_accepted_plan
\* and enable_background_investigation in initial_state and max_step_num and
\* max_plan_iterations as arguments; the other fields start empty.
\* visited and report_writes are history: the nodes executed so far and the
\* number of times final_report was written.
InitialState(cfg, body) ==
    [node |-> "coordinator",
     suspended |-> FALSE,
     auto_accepted_plan |-> body.auto_accept_plan,
     enable_background_investigation |-> cfg.enable_background_investigation,
     enable_clarification |-> cfg.enable_clarification,
     max_plan_iterations |-> cfg.max_plan_iterations,
     max_step_num |-> cfg.max_step_num,
     plan_iterations |-> 0,
     current_plan |-> UnsetPlan,
     observations |-> <<>>,
     resources |-> <<>>,
     final_report |-> NoneV,
     report_writes |-> 0,
     visited |-> <<>>]

Terminal(s) == s.node \in {"END", "FAILED"}

\* A run that can take a node step: not ended, not waiting for feedback.
Runnable(s) == ~Terminal(s) /\ ~s.suspended

\* The node s.node has run; control moves to n.
Goto(s, n) == [s EXCEPT !.visited = Append(@, s.node), !.node = n]

\* A fatal graph error raised while s.node runs: the run is aborted.
Abort(s) == [s EXCEPT !.visited = Append(@, s.node), !.node = "FAILED"]

\* Index of the first step whose status is st, 0 when there is none.
FirstWithStatus(steps, st) ==
    LET ks == {k \in DOMAIN steps : steps[k].status = st}
    IN  IF ks = {} THEN 0 ELSE CHOOSE k \in ks : \A j \in ks : k <= j

SetStatus(step, st) == [step EXCEPT !.status = st, !.log = Append(@, st)]

\* coordinator -> background_investigator | planner
CoordinatorNode(s, x) ==
    IF x.kind = "fatal" THEN Abort(s)
    ELSE Goto(s, IF s.enable_background_investigation
                 THEN "background_investigator" ELSE "planner")

\* background_investigator -> planner
BackgroundInvestigatorNode(s, x) ==
    Goto([s EXCEPT !.resources = Append(@, "background"),
                   !.observations = Append(@, [step |-> 0, kind |-> "background"])],
         "planner")

\* planner -> reporter | human_feedback | research_team
PlannerNode(s, x) ==
    LET n == s.plan_iterations + 1
    IN  IF x.kind = "malformed"
        THEN Goto([s EXCEPT !.plan_iterations = n,
                            !.current_plan =
                                CASE x.rep = "raw" ->
                                       [kind |-> "raw", has_enough_context |-> FALSE, steps |-> <<>>]
                                  [] x.rep = "structured" ->
                                       [kind |-> "plan", has_enough_context |-> FALSE, steps |-> <<>>]
                                  [] OTHER -> @],
                  "reporter")
        ELSE Goto([s EXCEPT !.plan_iterations = n,
                            !.current_plan =
                                [kind |-> "plan",
                                 has_enough_context |-> x.has_enough_context,
                                 steps |-> [k \in DOMAIN x.steps |-> NewStep(x.steps[k])]]],
                  IF x.has_enough_context THEN "reporter"
                  ELSE IF ~s.auto_accepted_plan THEN "human_feedback"
                  ELSE "research_team")

\* human_feedback: the suspension point; the run waits for resume.
HumanFeedbackNode(s, x) ==
    [s EXCEPT !.visited = Append(@, s.node), !.suspended = TRUE]

\* A dispatcher that takes the last pending step instead of the first.
ResearchTeamNode_LastPending(s, x) ==
    LET ks == {k \in DOMAIN s.current_plan.steps :
                  s.current_plan.steps[k].status = "pending"}
        k == IF ks = {} THEN 0 ELSE CHOOSE m \in ks : \A j \in ks : j <= m
    IN  IF k = 0 THEN Goto(s, "reporter")
        ELSE Goto([s EXCEPT !.current_plan.steps[k] = SetStatus(@, "in_progress")],
                  IF s.current_plan.steps[k].step_type = "research"
                  THEN "researcher" ELSE "coder")

\* research_team: the dispatcher.
ResearchTeamNode(s, x) ==
    LET k == FirstWithStatus(s.current_plan.steps, "pending")
    IN  IF k = 0 THEN Goto(s, "reporter")
        ELSE Goto([s EXCEPT !.current_plan.steps[k] = SetStatus(@, "in_progress")],
                  IF s.current_plan.steps[k].step_type = "research"
                  THEN "researcher" ELSE "coder")

\* researcher / coder: execute the step in progress, then back to research_team.
StepNode(s, x) ==
    LET k == FirstWithStatus(s.current_plan.steps, "in_progress")
        st == IF x.kind = "error" THEN "failed" ELSE "completed"
        res == IF x.kind = "error" THEN "error" ELSE "result"
        obs == IF x.kind = "error" THEN "error" ELSE "finding"
    IN  Goto([s EXCEPT !.current_plan.steps[k] =
                            [SetStatus(@, st) EXCEPT !.execution_result = Some(res)],
                       !.observations = Append(@, [step |-> k, kind |-> obs])],
             "research_team")

\* reporter -> END
ReporterNode(s, x) ==
    IF x.kind = "fatal" THEN Abort(s)
    ELSE Goto([s EXCEPT !.final_report = Some("report"),
                        !.report_writes = @ + 1],
              "END")

\* One node of the graph runs to completion on the external response x.
NodeStep(s, x) ==
    CASE s.node = "coordinator" -> CoordinatorNode(s, x)
      [] s.node = "background_investigator" -> BackgroundInvestigatorNode(s, x)
      [] s.node = "planner" -> PlannerNode(s, x)
      [] s.node = "human_feedback" -> HumanFeedbackNode(s, x)
      [] s.node = "research_team" -> ResearchTeamNode(s, x)
      [] s.node \in {"researcher", "coder"} -> StepNode(s, x)
      [] s.node = "reporter" -> ReporterNode(s, x)
      [] OTHER -> s

\* The external responses the node s.node can get.  The planner model is
\* asked for at most max_step_num steps.
ExtFor(s) ==
    CASE s.node \in {"coordinator", "reporter"} -> {Ext("ok"), Ext("fatal")}
      [] s.node = "planner" -> {a \in PlannerAnswers : Len(a.steps) <= s.max_step_num}
      [] s.node \in {"researcher", "coder"} -> {Ext("ok"), Ext("error")}
      [] OTHER -> {Ext("ok")}

\* A resume whose outcome depends on how many runs the system has seen.
ResumeNode_Ambient(s, feedback) ==
    IF Len(requests) > 1
    THEN [s EXCEPT !.suspended = FALSE, !.node = "reporter"]
    ELSE [s EXCEPT !.suspended = FALSE, !.node = "research_team"]

\* A resume that sends every rejected plan back to the planner.
ResumeNode_Unbounded(s, feedback) ==
    IF feedback = "approve"
    THEN [s EXCEPT !.suspended = FALSE, !.node = "research_team"]
    ELSE [s EXCEPT !.suspended = FALSE, !.node = "planner"]

\* resume(run_id, feedback): continue a suspended run from human_feedback.
ResumeNode(s, feedback) ==
    IF feedback = "approve" \/ s.plan_iterations >= s.max_plan_iterations
    THEN [s EXCEPT !.suspended = FALSE, !.node = "research_team"]
    ELSE [s EXCEPT !.suspended = FALSE, !.node = "planner"]

\* The payload a resume carries: an approval, or a rejection / edit request.
Feedback == {"approve", "reject"}

\* One external input to a run: a resume with its feedback, or the response
\* a provider gives to the node that runs.
EngineApply(s, x) ==
    IF x.kind \in Feedback THEN ResumeNode(s, x.kind) ELSE NodeStep(s, x)

\* The run from the checkpoint s on the external inputs xs.
RECURSIVE Continue(_, _)
Continue(s, xs) ==
    IF xs = <<>> THEN s ELSE Continue(EngineApply(s, Head(xs)), Tail(xs))

\* The run from state s on the external responses xs, by itself.
RECURSIVE Replay(_, _)
Replay(s, xs) ==
    IF xs = <<>> THEN s ELSE Replay(NodeStep(s, Head(xs)), Tail(xs))

\* ------------------------------------------------------------- API layer
\* research_sync / event_generator: configuration from the request or the
\* server defaults.
ApiConfig(body) ==
    [max_step_num |-> OrDefault(body.max_step_num, default_max_step_num),
     max_plan_iterations |->
        OrDefault(body.max_plan_iterations, default_max_plan_iterations),
     enable_clarification |->
        IfNotNone(body.enable_clarification, settings_enable_clarification),
     enable_background_investigation |->
        IfNotNone(body.enable_background_investigation,
                  settings_enable_background_investigation)]

\* A generator that hands the same identifier to every request.
NewResearchId_Reused(issued) == {1}

\* research_id = str(uuid.uuid4()): an identifier no earlier request got
\* (the first unused one stands for it; none when the space is used up).
NewResearchId(issued) ==
    {id \in RunIds \ issued : \A other \in RunIds \ issued : id <= other}

\* ResearchStep built from step_data: status is written as COMPLETED.
ResponseStep(step_data) ==
    [step_type |-> step_data.step_type,
     status |-> "completed",
     execution_result |-> step_data.execution_result]

\* ResearchPlan built from result.get("current_plan", {}).
ResponsePlan(plan_data) ==
    IF plan_data.kind = "raw"
    THEN [steps |-> <<>>, has_enough_context |-> TRUE]
    ELSE [steps |-> [k \in DOMAIN plan_data.steps |-> ResponseStep(plan_data.steps[k])],
          has_enough_context |->
              IF plan_data.kind = "plan" THEN plan_data.has_enough_context ELSE TRUE]

\* ResearchResponse built from the workflow's result.
SyncResponse(rid, cfg, result) ==
    [research_id |-> rid,
     plan |-> ResponsePlan(result.current_plan),
     final_report |-> IF result.final_report = NoneV THEN "" ELSE result.final_report[1],
     observations |-> result.observations,
     resources |-> result.resources,
     metadata |-> cfg]

\* ResearchError, as the HTTP 500 detail or as the last stream event.
ErrorEvent(rid) ==
    [type |-> "error", stage |-> "", observations |-> NoneV,
     current_step |-> 0, research_id |-> rid]

\* ResearchProgress built from one (node_name, state_data) of a chunk.
ProgressEvent(node_name, state_data) ==
    LET has == "observations" \in DOMAIN state_data
    IN  [type |-> "progress", stage |-> node_name,
         observations |-> IF has THEN Some(state_data.observations) ELSE NoneV,
         current_step |-> IF has THEN Len(state_data.observations) ELSE 0,
         research_id |-> 0]

\* The fields of WorkflowState a node can update.
DataFields ==
    {"plan_iterations", "current_plan", "observations", "resources", "final_report"}

\* The state delta of a node step: the fields it changed, with their new values.
Delta(s, t) == [f \in {g \in DataFields : s[g] # t[g]} |-> t[f]]

\* What graph.astream can yield for the node step s -> t: the node's name
\* with its state delta; when the run suspends the node has not returned, and
\* the engine yields the interrupt marker, whose payload is a tuple of
\* interrupts and not a mapping, or yields nothing and ends the stream.
StreamChunk(s, t) ==
    IF t.suspended
    THEN {[present |-> TRUE, name |-> "__interrupt__", mapping |-> FALSE, data |-> <<>>],
          [present |-> FALSE, name |-> "", mapping |-> FALSE, data |-> <<>>]}
    ELSE {[present |-> TRUE, name |-> s.node, mapping |-> TRUE, data |-> Delta(s, t)]}

\* The body of the `async for` loop on one chunk: state_data.get raises on a
\* payload that is not a mapping, and the except clause yields the error.
ChunkEvent(rid, chunk) ==
    IF chunk.mapping THEN ProgressEvent(chunk.name, chunk.data) ELSE ErrorEvent(rid)

\* ------------------------------------------------------------ MCP adapter
McpArgs ==
    [max_steps : {NoneV, Some(1)},
     enable_background_investigation : {NoneV, Some(TRUE), Some(FALSE)}]
NoArgs == [max_steps |-> NoneV, enable_background_investigation |-> NoneV]
Tools == {"deep_research", "quick_research"}

\* A deep_research body that asks for plan review.
DeepResearchBody_NoAutoAccept(args) ==
    [max_step_num |-> Some(5),
     max_plan_iterations |-> NoneV,
     auto_accept_plan |-> FALSE,
     enable_clarification |-> Some(FALSE),
     enable_background_investigation |-> Some(TRUE)]

\* execute_deep_research: the JSON body posted to /research.
DeepResearchBody(args) ==
    [max_step_num |-> Some(IfNotNone(args.max_steps, deep_default_max_steps)),
     max_plan_iterations |-> NoneV,
     auto_accept_plan |-> TRUE,
     enable_clarification |-> Some(FALSE),
     enable_background_investigation |->
        Some(IfNotNone(args.enable_background_investigation, TRUE))]

\* execute_quick_research: the JSON body posted to /research.
QuickResearchBody(args) ==
    [max_step_num |-> Some(quick_max_step_num),
     max_plan_iterations |-> NoneV,
     auto_accept_plan |-> TRUE,
     enable_clarification |-> Some(FALSE),
     enable_background_investigation |-> Some(FALSE)]

ToolBody(tool, args) ==
    IF tool = "deep_research" THEN DeepResearchBody(args) ELSE QuickResearchBody(args)

\* ----------------------------------------------------------- agent factory
\* The capability classes and the roles of AGENT_LLM_MAP; a configuration
\* maps none, one or both of the roles.
LlmTypes == {"basic", "reasoning"}
AgentTypes == {"researcher", "coder"}
AgentLlmMaps ==
    {<<>>,
     [r \in {"researcher"} |-> "reasoning"],
     [r \in AgentTypes |-> IF r = "coder" THEN "reasoning" ELSE "basic"]}

Locales == {"en-US", "zh-CN"}

\* The tool set handed to create_agent: no tool is intercepted.
ToolNames == {"web_search", "python_repl_tool"}
ToolSet == [n \in ToolNames |-> [name |-> n, intercepted |-> FALSE]]

\* interrupt_before_tools: absent, empty, or a list of tool names (a name
\* need not belong to the tool set).
InterruptLists ==
    {NoneV, Some({}), Some({"python_repl_tool", "crawl_tool"})}

\* wrap_tools_with_interceptor: the named tools raise the suspension signal
\* before they execute, the others are passed through.
wrap_tools_with_interceptor(tools, names) ==
    [n \in DOMAIN tools |-> [tools[n] EXCEPT !.intercepted = (n \in names)]]

\* A factory that never wraps.
ProcessedTools_Unwrapped(tools, interrupt_before_tools) == tools

\* create_agent: processed_tools.
ProcessedTools(tools, interrupt_before_tools) ==
    IF interrupt_before_tools # NoneV /\ interrupt_before_tools[1] # {}
    THEN wrap_tools_with_interceptor(tools, interrupt_before_tools[1])
    ELSE tools

\* A factory that gives every role the default class.
LlmType_AlwaysBasic(llm_map, agent_type) == "basic"

\* create_agent: llm_type = AGENT_LLM_MAP.get(agent_type, "basic").
LlmType(llm_map, agent_type) ==
    IF agent_type \in DOMAIN llm_map THEN llm_map[agent_type] ELSE "basic"

\* create_agent: the agent it returns.  given keeps the arguments, pending is
\* the intercepted tool waiting for a resume, trace is what the agent did.
create_agent(llm_map, agent_type, tools, interrupt_before_tools, locale) ==
    [agent_type |-> agent_type,
     warned |-> agent_type \notin DOMAIN llm_map,
     llm_type |-> LlmType(llm_map, agent_type),
     tools |-> ProcessedTools(tools, interrupt_before_tools),
     captured_locale |-> locale,
     given |-> [tools |-> tools, interrupt_before_tools |-> interrupt_before_tools,
                locale |-> locale],
     pending |-> "",
     trace |-> <<>>]

\* A prompt that reads the locale from the state it is invoked on.
PromptLocale_FromState(agent, state) == state.locale

\* prompt = lambda state, captured_locale=locale: apply_prompt_template(
\* prompt_template, state, locale=captured_locale): the locale it renders with.
PromptLocale(agent, state) == agent.captured_locale

\* No agent built yet.  built maps a role to the agent built for it, state is
\* the mutable state the agents are invoked on, calls counts the prompt
\* renderings and tool calls made.
NoAgents ==
    [llm_map |-> <<>>, state |-> [locale |-> "en-US"], built |-> <<>>, calls |-> 0]

\* ---------------------------------------------------------------- clients
Slots == 1..MaxRuns

\* A POST to /research or /research/stream.  resume_of and feedback are the
\* extra fields of a client that tries to resume the run of an earlier
\* request (resume_of is that request's slot, 0 for none): ResearchRequest
\* declares no such field, so the handlers never read them.
ClientCalls ==
    {[via |-> "client", endpoint |-> e, tool |-> "", body |-> b, args |-> NoArgs,
      resume_of |-> 0, feedback |-> ""] : e \in Endpoints, b \in Bodies}

\* A call of an MCP tool.
McpCalls ==
    {[via |-> "mcp", endpoint |-> "sync", tool |-> t, body |-> DefaultBody, args |-> a,
      resume_of |-> 0, feedback |-> ""] : t \in Tools, a \in McpArgs}

ResumeCalls ==
    {[via |-> "client", endpoint |-> e, tool |-> "", body |-> DefaultBody, args |-> NoArgs,
      resume_of |-> 1, feedback |-> "approve"] : e \in Endpoints}

\* A request that asks for the plan to be reviewed before it is executed.
ReviewCalls ==
    {c \in ClientCalls : c.body = [DefaultBody EXCEPT !.auto_accept_plan = FALSE]}

\* One call, or a call that asks for plan review followed by a resume attempt.
Loads ==
    {<<c>> : c \in ClientCalls \cup McpCalls}
    \cup {<<c, r>> : c \in ReviewCalls, r \in ResumeCalls}

\* Calls that never wait for plan review.
AutoLoads ==
    {<<c>> : c \in McpCalls \cup
                   {d \in ClientCalls : /\ d.body.auto_accept_plan
                                        /\ d.body.max_plan_iterations = NoneV}}

\* Two calls that run concurrently: quick_research calls and clients of
\* either endpoint that ask for one step.
ShortCalls ==
    {c \in ClientCalls : c.body = [DefaultBody EXCEPT !.max_step_num = Some(1)]}

ConcCalls ==
    ShortCalls \cup {c \in McpCalls : c.tool = "quick_research" /\ c.args = NoArgs}

ConcLoads == {<<c, d>> : c \in ConcCalls, d \in ShortCalls}

\* A caller of the workflow's own interface (run / stream with a run
\* identifier, then resume), as section 6 of the specification exposes it.
EngineCall(b) ==
    [via |-> "engine", endpoint |-> "engine", tool |-> "", body |-> b, args |-> NoArgs,
     resume_of |-> 0, feedback |-> ""]

\* A request whose plan is reviewed, with one step at most.
ReviewBody ==
    [max_step_num |-> Some(1), max_plan_iterations |-> NoneV,
     auto_accept_plan |-> FALSE, enable_clarification |-> NoneV,
     enable_background_investigation |-> Some(FALSE)]

\* Calls through the API, single calls of the workflow interface (long plans
\* in one planning round, or short plans in several), and two calls of the
\* workflow interface with the same request.
EngineLoads ==
    {<<c>> : c \in {d \in ClientCalls : d.body \in {DefaultBody, ReviewBody}}}
    \cup {<<c>> : c \in {d \in McpCalls : d.tool = "quick_research" /\ d.args = NoArgs}}
    \cup {<<EngineCall(b)>> :
             b \in {d \in Bodies :
                       /\ d.enable_background_investigation = Some(FALSE)
                       /\ d.enable_clarification = NoneV
                       /\ \/ d.max_step_num = Some(1)
                          \/ d.max_step_num = NoneV /\ d.max_plan_iterations = NoneV}}
    \cup {<<EngineCall(ReviewBody), EngineCall(ReviewBody)>>}

\* ------------------------------------------- MCP call_tool handler
\* The names a caller can pass: the two tools and one the server lacks.
CallNames == Tools \cup {"web_search"}

\* The query of a call: missing, empty or given.
Queries == {NoneV, Some(""), Some("q")}

\* The arguments of a call (arguments: Any): no mapping at all, or a mapping.
CallArguments ==
    {[mapping |-> FALSE, query |-> NoneV, args |-> NoArgs]}
    \cup {[mapping |-> TRUE, query |-> q, args |-> a] : q \in Queries, a \in McpArgs}

\* What a piece of the handler ends in: a TextContent it returns, an
\* exception it raises, or the POST to /research.
Text(msg, detail, status) ==
    [kind |-> "text", msg |-> msg, detail |-> detail, status |-> status,
     report |-> NoneV]
Raised(exc) ==
    [kind |-> "raise", msg |-> "", detail |-> exc, status |-> 0, report |-> NoneV]
Post == [kind |-> "post", msg |-> "", detail |-> "", status |-> 0, report |-> NoneV]

\* execute_deep_research / execute_quick_research up to the POST:
\* arguments.get raises when arguments is no mapping; `if not query` returns
\* the error text for a missing or empty query.
ExecuteEntry(arguments) ==
    IF ~arguments.mapping
    THEN Raised("AttributeError")
    ELSE IF arguments.query = NoneV \/ arguments.query = Some("")
    THEN Text("Error: 'query' parameter is required", "", 0)
    ELSE Post

\* format_research_response: the plan and the observations are rendered
\* only when detailed.
format_research_response(result, detailed) ==
    [research_id |-> result.research_id,
     plan |-> IF detailed /\ result.plan.steps # <<>>
              THEN Some(result.plan) ELSE NoneV,
     observations |-> IF detailed THEN result.observations ELSE <<>>,
     final_report |-> result.final_report]

\* execute_deep_research / execute_quick_research after the POST returned.
ExecuteResponse(tool, response) ==
    IF response.status_code # 200
    THEN Text("Research API error", "", response.status_code)
    ELSE [Text("report", "", 0) EXCEPT
             !.report = Some(format_research_response(response.body,
                                                      tool = "deep_research"))]

\* call_tool: the body of its try, up to the POST.
CallToolTry(name, arguments) ==
    IF name \in {"deep_research", "quick_research"}
    THEN ExecuteEntry(arguments)
    ELSE Text("Unknown tool", name, 0)

\* A handler without the except clause: the exception leaves call_tool.
CallToolExcept_Propagate(outcome) == outcome

\* call_tool: except Exception as e -> the error text.
CallToolExcept(outcome) ==
    IF outcome.kind = "raise"
    THEN Text("Error executing research", outcome.detail, 0)
    ELSE outcome

\* A call of the handler.
HandlerCalls ==
    {[via |-> "handler", endpoint |-> "sync", tool |-> n, body |-> DefaultBody,
      args |-> a.args, resume_of |-> 0, feedback |-> "",
      mapping |-> a.mapping, query |-> a.query] :
        n \in CallNames, a \in CallArguments}

\* One call, or a quick_research call followed by a call that sends no
\* request.
HandlerLoads ==
    {<<c>> : c \in HandlerCalls}
    \cup {<<c, d>> :
             c \in {e \in HandlerCalls : /\ e.tool = "quick_research"
                                          /\ e.query = Some("q")
                                          /\ e.args = NoArgs},
             d \in {e \in HandlerCalls : /\ e.args = NoArgs
                                          /\ CallToolTry(e.tool, e).kind # "post"}}

\* ---------------------------------------------------------------- actions
RunId(i) == requests[i].research_id

InFlight(i) == i \in DOMAIN requests /\ api[i].phase = "running"

\* The handler's first lines: a fresh research id, the configuration, the
\* initial state; the workflow is started.
Admit(call, origin, body, id) ==
    LET cfg == ApiConfig(body)
    IN  /\ requests' = Append(requests,
              [origin |-> origin, endpoint |-> call.endpoint, body |-> body,
               research_id |-> id, resume_of |-> call.resume_of,
               feedback |-> call.feedback,
               overlap |-> \E j \in DOMAIN requests :
                               InFlight(j) /\ inputs[j] # <<>>])
        /\ wf' = (id :> InitialState(cfg, body)) @@ wf
        /\ inputs' = Append(inputs, <<>>)
        /\ api' = Append(api, [phase |-> "running", cfg |-> cfg, response |-> NoneV,
                               events |-> <<>>, transitions |-> <<>>])
        /\ arrivals' = Tail(arrivals)
        /\ UNCHANGED <<store, agents>>

\* POST /research or /research/stream from a client.  A client that resumes
\* an earlier request has got that request's answer first.
ReceiveHttp ==
    /\ arrivals # <<>>
    /\ Head(arrivals).via = "client"
    /\ Head(arrivals).resume_of # 0 => ~InFlight(Head(arrivals).resume_of)
    /\ \E id \in NewResearchId(DOMAIN wf) :
           Admit(Head(arrivals), "client", Head(arrivals).body, id)
    /\ UNCHANGED mcp

\* call_tool: deep_research / quick_research post to /research.
McpCallTool ==
    /\ arrivals # <<>>
    /\ Head(arrivals).via = "mcp"
    /\ \E id \in NewResearchId(DOMAIN wf) :
           Admit(Head(arrivals), Head(arrivals).tool,
                 ToolBody(Head(arrivals).tool, Head(arrivals).args), id)
    /\ UNCHANGED mcp

\* run_agent_workflow_async: one node of the run of request i.
SyncStep(i) ==
    /\ InFlight(i)
    /\ requests[i].endpoint = "sync"
    /\ Runnable(wf[RunId(i)])
    /\ \E x \in ExtFor(wf[RunId(i)]) :
           /\ wf' = [wf EXCEPT ![RunId(i)] = NodeStep(@, x)]
           /\ inputs' = [inputs EXCEPT ![i] = Append(@, x)]
    /\ UNCHANGED <<arrivals, requests, api, store, agents, mcp>>

\* The workflow returned (at END or at an interrupt point): the response.
SyncRespond(i) ==
    /\ InFlight(i)
    /\ requests[i].endpoint = "sync"
    /\ wf[RunId(i)].node = "END" \/ wf[RunId(i)].suspended
    /\ api' = [api EXCEPT ![i].phase = "done",
                          ![i].response =
                              Some(SyncResponse(RunId(i), api[i].cfg, wf[RunId(i)]))]
    /\ UNCHANGED <<arrivals, requests, wf, inputs, store, agents, mcp>>

\* The workflow raised: HTTP 500 with a ResearchError.
SyncError(i) ==
    /\ InFlight(i)
    /\ requests[i].endpoint = "sync"
    /\ wf[RunId(i)].node = "FAILED"
    /\ api' = [api EXCEPT ![i].phase = "error",
                          ![i].events = Append(@, ErrorEvent(RunId(i)))]
    /\ UNCHANGED <<arrivals, requests, wf, inputs, store, agents, mcp>>

\* event_generator: one turn of `async for chunk in graph.astream(...)`.
\* The node runs; it raises, or the graph yields a chunk and the loop body
\* turns it into an event.
StreamStep(i) ==
    /\ InFlight(i)
    /\ requests[i].endpoint = "stream"
    /\ Runnable(wf[RunId(i)])
    /\ \E x \in ExtFor(wf[RunId(i)]) :
           LET s == wf[RunId(i)]
               t == NodeStep(s, x)
           IN  /\ wf' = [wf EXCEPT ![RunId(i)] = t]
               /\ inputs' = [inputs EXCEPT ![i] = Append(@, x)]
               /\ \E chunk \in StreamChunk(s, t) :
                      api' =
                        IF t.node = "FAILED"
                        THEN [api EXCEPT ![i].phase = "error",
                                         ![i].events = Append(@, ErrorEvent(RunId(i)))]
                        ELSE IF ~chunk.present
                        THEN [api EXCEPT ![i].transitions = Append(@, s.node)]
                        ELSE [api EXCEPT ![i].phase =
                                             IF chunk.mapping THEN "running" ELSE "error",
                                         ![i].transitions = Append(@, s.node),
                                         ![i].events =
                                             Append(@, ChunkEvent(RunId(i), chunk))]
    /\ UNCHANGED <<arrivals, requests, store, agents, mcp>>

\* graph.astream is exhausted: the stream ends.
StreamFinish(i) ==
    /\ InFlight(i)
    /\ requests[i].endpoint = "stream"
    /\ wf[RunId(i)].node = "END" \/ wf[RunId(i)].suspended
    /\ api' = [api EXCEPT ![i].phase = "done"]
    /\ UNCHANGED <<arrivals, requests, wf, inputs, store, agents, mcp>>

\* run / stream of the workflow interface: a run starts under a run
\* identifier.
EngineStart ==
    /\ arrivals # <<>>
    /\ Head(arrivals).via = "engine"
    /\ \E id \in NewResearchId(DOMAIN wf) :
           Admit(Head(arrivals), "engine", Head(arrivals).body, id)
    /\ UNCHANGED mcp

\* The runner drives one node; at a suspension the state is saved under the
\* run identifier (at is the number of inputs the run had consumed).
EngineStep(i) ==
    /\ i \in DOMAIN requests
    /\ requests[i].endpoint = "engine"
    /\ Runnable(wf[RunId(i)])
    /\ \E x \in ExtFor(wf[RunId(i)]) :
           LET t == NodeStep(wf[RunId(i)], x)
           IN  /\ wf' = [wf EXCEPT ![RunId(i)] = t]
               /\ inputs' = [inputs EXCEPT ![i] = Append(@, x)]
               /\ store' = IF t.suspended
                            THEN (RunId(i) :> [state |-> t, at |-> Len(inputs[i]) + 1])
                                 @@ store
                            ELSE store
    /\ UNCHANGED <<arrivals, requests, api, agents, mcp>>

\* resume(run_id, feedback): the checkpoint is loaded and the run continues
\* from the suspension point.
EngineResume(i) ==
    /\ i \in DOMAIN requests
    /\ requests[i].endpoint = "engine"
    /\ RunId(i) \in DOMAIN store
    /\ wf[RunId(i)].suspended
    /\ \E fb \in Feedback :
           /\ wf' = [wf EXCEPT ![RunId(i)] = ResumeNode(store[RunId(i)].state, fb)]
           /\ inputs' = [inputs EXCEPT ![i] = Append(@, Ext(fb))]
    /\ UNCHANGED <<arrivals, requests, api, store, agents, mcp>>

Handler(i) ==
    SyncStep(i) \/ SyncRespond(i) \/ SyncError(i) \/ StreamStep(i) \/ StreamFinish(i)

Next ==
    \/ ReceiveHttp
    \/ McpCallTool
    \/ \E i \in Slots : SyncStep(i)
    \/ \E i \in Slots : SyncRespond(i)
    \/ \E i \in Slots : SyncError(i)
    \/ \E i \in Slots : StreamStep(i)
    \/ \E i \in Slots : StreamFinish(i)

Start ==
    /\ requests = <<>>
    /\ wf = <<>>
    /\ inputs = <<>>
    /\ api = <<>>
    /\ store = <<>>
    /\ agents = NoAgents
    /\ mcp = <<>>

Init == arrivals \in Loads /\ Start

AutoInit == arrivals \in AutoLoads /\ Start

ConcInit == arrivals \in ConcLoads /\ Start

\* Every ready coroutine is scheduled and every provider call returns.
Fairness ==
    /\ WF_vars(ReceiveHttp \/ McpCallTool)
    /\ \A i \in Slots : WF_vars(Handler(i))

Spec == Init /\ [][Next]_vars

FairSpec == Spec /\ Fairness

AutoAcceptSpec == AutoInit /\ [][Next]_vars /\ Fairness

ConcSpec == ConcInit /\ [][Next]_vars

\* The service together with callers of the workflow interface.
EngineNext ==
    \/ Next
    \/ EngineStart
    \/ \E i \in Slots : EngineStep(i)
    \/ \E i \in Slots : EngineResume(i)

EngineInit == arrivals \in EngineLoads /\ Start

\* Starts and node steps are scheduled; a resume is up to the caller.
EngineFairness ==
    /\ Fairness
    /\ WF_vars(EngineStart)
    /\ \A i \in Slots : WF_vars(EngineStep(i))

EngineSpec == EngineInit /\ [][EngineNext]_vars /\ EngineFairness

\* ------------------------------------------------------ agent factory runs
Built == DOMAIN agents.built

\* A node builds the agent of its role, with the tool set, an interrupt list
\* and the locale of its state.
CreateAgent ==
    /\ \E ty \in AgentTypes \ Built, ibt \in InterruptLists :
           agents' = [agents EXCEPT !.built =
                         (ty :> create_agent(agents.llm_map, ty, ToolSet, ibt,
                                             agents.state.locale)) @@ @]
    /\ UNCHANGED <<arrivals, requests, wf, inputs, api, store, mcp>>

\* The locale in the mutable state changes.
SetStateLocale ==
    /\ \E l \in Locales \ {agents.state.locale} :
           agents' = [agents EXCEPT !.state.locale = l]
    /\ UNCHANGED <<arrivals, requests, wf, inputs, api, store, mcp>>

\* The agent is invoked on the current state: it renders its system prompt.
\* The trace keeps the locale it rendered with (arg) and the locale of the
\* state it was invoked on (on).
InvokeAgent(a) ==
    /\ a \in Built
    /\ agents.built[a].pending = ""
    /\ agents.calls < MaxCalls
    /\ agents' = [agents EXCEPT
           !.calls = @ + 1,
           !.built[a].trace =
               Append(@, [ev |-> "prompt",
                          arg |-> PromptLocale(agents.built[a], agents.state),
                          on |-> agents.state.locale])]
    /\ UNCHANGED <<arrivals, requests, wf, inputs, api, store, mcp>>

\* The agent invokes one of its tools: an intercepted tool raises the
\* suspension signal, another tool executes.
CallTool(a) ==
    /\ a \in Built
    /\ agents.built[a].pending = ""
    /\ agents.calls < MaxCalls
    /\ \E n \in DOMAIN agents.built[a].tools :
           agents' = [agents EXCEPT
               !.calls = @ + 1,
               !["built"][a].trace =
                   @ \o <<[ev |-> "call", arg |-> n],
                          [ev |-> IF agents.built[a].tools[n].intercepted
                                  THEN "interrupt" ELSE "exec",
                           arg |-> n]>>,
               !["built"][a].pending =
                   IF agents.built[a].tools[n].intercepted THEN n ELSE ""]
    /\ UNCHANGED <<arrivals, requests, wf, inputs, api, store, mcp>>

\* The suspended call is resumed: approved, the tool executes; rejected, it
\* is skipped.
ResumeTool(a) ==
    /\ a \in Built
    /\ agents.built[a].pending # ""
    /\ \E fb \in Feedback :
           agents' = [agents EXCEPT
               !["built"][a].trace =
                   @ \o <<[ev |-> "resume", arg |-> fb]>>
                     \o (IF fb = "approve"
                         THEN <<[ev |-> "exec", arg |-> agents.built[a].pending]>>
                         ELSE <<>>),
               !["built"][a].pending = ""]
    /\ UNCHANGED <<arrivals, requests, wf, inputs, api, store, mcp>>

AgentNext ==
    \/ CreateAgent
    \/ SetStateLocale
    \/ \E a \in AgentTypes : InvokeAgent(a)
    \/ \E a \in AgentTypes : CallTool(a)
    \/ \E a \in AgentTypes : ResumeTool(a)

\* No request is served; AGENT_LLM_MAP is any configuration.
AgentInit ==
    /\ arrivals = <<>>
    /\ requests = <<>>
    /\ wf = <<>>
    /\ inputs = <<>>
    /\ api = <<>>
    /\ store = <<>>
    /\ mcp = <<>>
    /\ agents \in {[NoAgents EXCEPT !.llm_map = m] : m \in AgentLlmMaps}

AgentSpec == AgentInit /\ [][AgentNext]_vars

\* ------------------------------------------------- MCP handler runs
\* The handler's record of a call: posts counts the requests it sent, slot is
\* the request the API received from it (0 for none), status_code is the
\* status it got back (0 for none), raw is what its try block ended in and
\* result is what call_tool returned (raw and result are unset while the
\* POST is awaited).
HandlerEntry(c, posts, slot, raw) ==
    [name |-> c.tool, mapping |-> c.mapping, query |-> c.query,
     posts |-> posts, slot |-> slot, status_code |-> 0,
     raw |-> raw,
     result |-> IF raw = NoneV THEN NoneV ELSE Some(CallToolExcept(raw[1]))]

\* call_tool returns without a request: unknown tool, arguments that are no
\* mapping, or no query.
CallToolNoPost ==
    /\ arrivals # <<>>
    /\ Head(arrivals).via = "handler"
    /\ LET c == Head(arrivals)
           o == CallToolTry(c.tool, c)
       IN  /\ o.kind # "post"
           /\ mcp' = Append(mcp, HandlerEntry(c, 0, 0, Some(o)))
    /\ arrivals' = Tail(arrivals)
    /\ UNCHANGED <<requests, wf, inputs, api, store, agents>>

\* client.post raises: the API server cannot be reached.
CallToolPostFails ==
    /\ arrivals # <<>>
    /\ Head(arrivals).via = "handler"
    /\ LET c == Head(arrivals)
       IN  /\ CallToolTry(c.tool, c).kind = "post"
           /\ mcp' = Append(mcp, HandlerEntry(c, 1, 0, Some(Raised("ConnectError"))))
    /\ arrivals' = Tail(arrivals)
    /\ UNCHANGED <<requests, wf, inputs, api, store, agents>>

\* client.post reaches /research: the API starts a run and the handler waits.
CallToolPost ==
    /\ arrivals # <<>>
    /\ Head(arrivals).via = "handler"
    /\ LET c == Head(arrivals)
       IN  /\ CallToolTry(c.tool, c).kind = "post"
           /\ mcp' = Append(mcp, HandlerEntry(c, 1, Len(requests) + 1, NoneV))
           /\ \E id \in NewResearchId(DOMAIN wf) :
                  Admit(c, c.tool, ToolBody(c.tool, c.args), id)

\* The API answered: 200 with the ResearchResponse, or 500 with the
\* ResearchError.
CallToolResponse(k) ==
    /\ k \in DOMAIN mcp
    /\ mcp[k].raw = NoneV
    /\ api[mcp[k].slot].phase \in {"done", "error"}
    /\ LET a == api[mcp[k].slot]
           response == IF a.phase = "done"
                       THEN [status_code |-> 200, body |-> a.response[1]]
                       ELSE [status_code |-> 500, body |-> a.events[Len(a.events)]]
           o == ExecuteResponse(mcp[k].name, response)
       IN  mcp' = [mcp EXCEPT ![k].status_code = response.status_code,
                              ![k].raw = Some(o),
                              ![k].result = Some(CallToolExcept(o))]
    /\ UNCHANGED <<arrivals, requests, wf, inputs, api, store, agents>>

\* The client's timeout expires while the API is still running.
CallToolTimeout(k) ==
    /\ k \in DOMAIN mcp
    /\ mcp[k].raw = NoneV
    /\ api[mcp[k].slot].phase = "running"
    /\ mcp' = [mcp EXCEPT ![k].raw = Some(Raised("ReadTimeout")),
                          ![k].result = Some(CallToolExcept(Raised("ReadTimeout")))]
    /\ UNCHANGED <<arrivals, requests, wf, inputs, api, store, agents>>

McpNext ==
    \/ CallToolNoPost
    \/ CallToolPostFails
    \/ CallToolPost
    \/ \E i \in Slots : SyncStep(i)
    \/ \E i \in Slots : SyncRespond(i)
    \/ \E i \in Slots : SyncError(i)
    \/ \E k \in Slots : CallToolResponse(k)
    \/ \E k \in Slots : CallToolTimeout(k)

McpInit == arrivals \in HandlerLoads /\ Start

McpSpec == McpInit /\ [][McpNext]_vars

\* ------------------------------------------------------------- properties
Range(f) == {f[k] : k \in DOMAIN f}

Run(i) == wf[RunId(i)]

Steps(i) == Run(i).current_plan.steps

Responded(i) == api[i].response # NoneV

Response(i) == api[i].response[1]

IsProgress(e) == e.type = "progress"

\* The histories a Step may have: a prefix of pending, in_progress, then
\* completed or failed.
StepLogs ==
    {<<"pending">>, <<"pending", "in_progress">>,
     <<"pending", "in_progress", "completed">>,
     <<"pending", "in_progress", "failed">>}

\* C1: in every reachable state of every run plan_iterations is at most
\* max_plan_iterations, for every max_plan_iterations the API hands to the
\* workflow, and plan_iterations counts the planner invocations.
C1_PlanIterationsBounded ==
    \A i \in DOMAIN requests :
        /\ Run(i).plan_iterations =
               Cardinality({k \in DOMAIN Run(i).visited : Run(i).visited[k] = "planner"})
        /\ Run(i).plan_iterations <= Run(i).max_plan_iterations

\* C2: every step's status history is pending, in_progress, then completed
\* or failed, execution_result is set exactly for a completed or failed step,
\* and the status the API reports for a step is the status the step has.
C2_StepLifecycleReported ==
    \A i \in DOMAIN requests :
        /\ \A k \in DOMAIN Steps(i) :
               /\ Steps(i)[k].log \in StepLogs
               /\ Steps(i)[k].execution_result # NoneV
                      <=> Steps(i)[k].status \in {"completed", "failed"}
        /\ Responded(i) =>
               \A k \in DOMAIN Response(i).plan.steps :
                   Response(i).plan.steps[k].status = Steps(i)[k].status

\* C3: the number of observations never decreases from one progress event
\* of a stream to the next.
C3_ObservationsNonDecreasing ==
    \A i \in DOMAIN requests :
        LET prog == SelectSeq(api[i].events, IsProgress)
        IN  \A k \in 1..(Len(prog) - 1) :
                prog[k].current_step <= prog[k + 1].current_step

\* C4: final_report is written at most once, only by the reporter and only
\* when the reporter ran to completion, and every successful response of the
\* synchronous endpoint carries the report the reporter produced.
C4_ReportOnlyFromReporter ==
    \A i \in DOMAIN requests :
        /\ Run(i).report_writes <= 1
        /\ Run(i).final_report # NoneV =>
               Run(i).node = "END" /\ "reporter" \in Range(Run(i).visited)
        /\ Responded(i) =>
               /\ "reporter" \in Range(Run(i).visited)
               /\ Run(i).final_report = Some(Response(i).final_report)
               /\ Response(i).final_report # ""

\* A run that never waits for plan review: started with auto_accept_plan, or
\* started through an MCP tool.
AutoAccepted(i) ==
    /\ i \in DOMAIN requests
    /\ requests[i].body.auto_accept_plan \/ requests[i].origin \in Tools

C5_NoReview ==
    \A i \in DOMAIN requests :
        AutoAccepted(i) =>
            /\ "human_feedback" \notin Range(Run(i).visited)
            /\ ~Run(i).suspended
            /\ Run(i).node = "END" =>
                   "reporter" \in Range(Run(i).visited) /\ Run(i).final_report # NoneV

\* C5: a run started with auto_accept_plan=true (every run started through
\* the MCP tools is one) never visits human_feedback, and it goes on to the
\* reporter and ends with a non-empty final_report, unless a fatal error
\* aborts it first.
C5_AutoAcceptReachesReporter ==
    /\ []C5_NoReview
    /\ \A i \in Slots :
           AutoAccepted(i) ~>
               /\ i \in DOMAIN requests
               /\ \/ Run(i).node = "END" /\ Run(i).final_report # NoneV
                  \/ Run(i).node = "FAILED"

\* C5's case: a quick_research run, without background investigation, at END
\* with its report.
C5_Witness ==
    \E i \in DOMAIN requests :
        /\ requests[i].origin = "quick_research"
        /\ requests[i].body.auto_accept_plan
        /\ ~Run(i).enable_background_investigation
        /\ Run(i).node = "END"
        /\ Run(i).final_report # NoneV
        /\ Responded(i)

\* C6: a request that carries the run identifier of a suspended run and an
\* approval continues that same run, to research_team and to the reporter.
C6_ResumeContinuesRun ==
    \A j \in DOMAIN requests :
        (requests[j].resume_of # 0 /\ requests[j].feedback = "approve") =>
            /\ RunId(j) = RunId(requests[j].resume_of)
            /\ ~Run(requests[j].resume_of).suspended
            /\ ~InFlight(j) => "reporter" \in Range(Run(requests[j].resume_of).visited)

\* C7: a failed step keeps the error as its execution_result, leaves an error
\* observation, does not abort the run, and is reported as failed.
C7_FailedStepReported ==
    \A i \in DOMAIN requests :
        \A k \in DOMAIN Steps(i) :
            Steps(i)[k].status = "failed" =>
                /\ Steps(i)[k].execution_result = Some("error")
                /\ [step |-> k, kind |-> "error"] \in Range(Run(i).observations)
                /\ Run(i).node # "FAILED" \/ "reporter" \in Range(Run(i).visited)
                /\ Responded(i) => Response(i).plan.steps[k].status = "failed"

\* The planner of run i got malformed output on every attempt.
PlannerGaveUp(i) == \E k \in DOMAIN inputs[i] : inputs[i][k].kind = "malformed"

\* C8: when the planner gives up the run goes straight to the reporter, and
\* the plan returned to the caller reports has_enough_context=false.
C8_MalformedPlanReported ==
    \A i \in DOMAIN requests :
        PlannerGaveUp(i) =>
            /\ Range(Run(i).visited) \cap {"human_feedback", "research_team"} = {}
            /\ Run(i).node \in {"reporter", "END", "FAILED"}
            /\ Responded(i) => ~Response(i).plan.has_enough_context

C10_OneProgressEventPerTransition ==
    \A i \in DOMAIN requests :
        requests[i].endpoint = "stream" =>
            LET prog == SelectSeq(api[i].events, IsProgress)
            IN  /\ Len(prog) = Len(api[i].transitions)
                /\ \A k \in DOMAIN prog : prog[k].stage = api[i].transitions[k]

IsError(e) == e.type = "error"

\* C11: a request gets an error only when its run was aborted by a fatal
\* error; then it gets exactly one, carrying its own run identifier, as the
\* last event and without a report, and its workflow is not stepped again.
\* A run that was aborted gets one.
C11_ErrorOnlyWhenFatal ==
    \A i \in DOMAIN requests :
        LET errs == SelectSeq(api[i].events, IsError)
        IN  /\ Len(errs) <= 1
            /\ errs # <<>> =>
                   /\ Run(i).node = "FAILED"
                   /\ errs[1].research_id = RunId(i)
                   /\ api[i].events[Len(api[i].events)] = errs[1]
                   /\ ~Responded(i)
                   /\ ~InFlight(i)
            /\ (Run(i).node = "FAILED" /\ ~InFlight(i)) => errs # <<>>

\* The plan indices of the observations the steps of run i appended, in the
\* order they were appended.
StepObservations(i) ==
    LET IsStepObs(o) == o.step > 0
    IN  SelectSeq(Run(i).observations, IsStepObs)

InProgress(i) == {k \in DOMAIN Steps(i) : Steps(i)[k].status = "in_progress"}

Pending(i) == {k \in DOMAIN Steps(i) : Steps(i)[k].status = "pending"}

\* C12: the steps that left pending are a prefix of the plan, at most one
\* step is in_progress, and it is at researcher when it is a research step
\* and at coder when it is a processing step; the dispatcher hands over to
\* the reporter exactly when no pending step remains; the steps'
\* observations are in plan order.
C12_DispatcherListOrder ==
    \A i \in DOMAIN requests :
        LET v == Run(i).visited
            dispatched == v # <<>> /\ v[Len(v)] = "research_team"
        IN  /\ \A j, k \in DOMAIN Steps(i) : (j < k /\ k \notin Pending(i)) => j \notin Pending(i)
            /\ Cardinality(InProgress(i)) <= 1
            /\ InProgress(i) # {} <=> Run(i).node \in {"researcher", "coder"}
            /\ \A k \in InProgress(i) :
                   Run(i).node = IF Steps(i)[k].step_type = "research"
                                 THEN "researcher" ELSE "coder"
            /\ dispatched => (Run(i).node = "reporter" <=> InProgress(i) \cup Pending(i) = {})
            /\ (dispatched /\ Run(i).node # "reporter") =>
                   \A k \in InProgress(i) : \A j \in Pending(i) : k < j
            /\ \A a, b \in DOMAIN StepObservations(i) :
                   a < b => StepObservations(i)[a].step < StepObservations(i)[b].step

\* C12's case: a run that executed a research step and then a processing
\* step stands at the reporter.
C12_Witness ==
    \E i \in DOMAIN requests :
        /\ Len(Steps(i)) = 2
        /\ Steps(i)[1].step_type = "research" /\ Steps(i)[2].step_type = "processing"
        /\ Run(i).node = "reporter"
        /\ Len(StepObservations(i)) = 2
        /\ {"researcher", "coder"} \subseteq Range(Run(i).visited)

\* The number of planning rounds a run can have.
PlanRounds(i) ==
    IF Run(i).max_plan_iterations > 1 THEN Run(i).max_plan_iterations ELSE 1

\* The longest path of a run: coordinator, background_investigator, a planner
\* and a human_feedback per round, research_team and a step node per step,
\* research_team once more, reporter.
NodeBound(i) == 4 + 2 * PlanRounds(i) + 2 * MaxSteps

C13_PathBounded ==
    \A i \in DOMAIN requests : Len(Run(i).visited) <= NodeBound(i)

\* C13: a run executes a bounded number of nodes and, from some point on,
\* stays at END, at a failure or at a suspension nobody resumes, whatever the
\* plans, the step failures and the rejections; the synchronous handler
\* returns and the stream ends.
C13_RunsTerminate ==
    /\ []C13_PathBounded
    /\ \A i \in Slots :
           <>[](i \in DOMAIN requests => Terminal(Run(i)) \/ Run(i).suspended)
    /\ \A i \in Slots :
           (InFlight(i) /\ requests[i].endpoint \in Endpoints) ~> ~InFlight(i)

\* C13's case: a run whose plan was rejected and made again has ended with a
\* failed step behind it.
C13_Witness ==
    \E i \in DOMAIN requests :
        /\ requests[i].endpoint = "engine"
        /\ Run(i).plan_iterations = 2
        /\ \E k \in DOMAIN inputs[i] : inputs[i][k].kind = "reject"
        /\ \E k \in DOMAIN Steps(i) : Steps(i)[k].status = "failed"
        /\ Run(i).node = "END"

\* The runs that have a checkpoint, and what each consumed since it.
Checkpointed == {i \in DOMAIN requests : RunId(i) \in DOMAIN store}

Checkpoint(i) == store[RunId(i)].state

Since(i) == SubSeq(inputs[i], store[RunId(i)].at + 1, Len(inputs[i]))

C15_RoleFallback ==
    \A a \in Built :
        LET agent == agents.built[a]
        IN  /\ agent.agent_type = a
            /\ a \notin DOMAIN agents.llm_map =>
                   agent.warned /\ agent.llm_type = "basic"
            /\ a \in DOMAIN agents.llm_map =>
                   ~agent.warned /\ agent.llm_type = agents.llm_map[a]

\* C15's case: one agent built for a role the map lacks, one for a role the
\* map gives a class other than the default.
C15_Witness ==
    /\ Built = AgentTypes
    /\ \E a \in Built : agents.built[a].warned /\ agents.built[a].llm_type = "basic"
    /\ \E a \in Built : ~agents.built[a].warned /\ agents.built[a].llm_type = "reasoning"

\* C16: every prompt an agent renders uses the locale it was built with,
\* whatever the locale of the state it is invoked on and whatever locale
\* other agents were built with.
C16_LocaleCaptured ==
    \A a \in Built :
        \A k \in DOMAIN agents.built[a].trace :
            LET e == agents.built[a].trace[k]
            IN  e.ev = "prompt" => e.arg = agents.built[a].given.locale

\* An agent rendered its prompt on a state whose locale differs from the one
\* it was built with, while another agent had been built with another locale.
C16_Witness ==
    \E a \in Built, b \in Built :
        /\ agents.built[b].given.locale # agents.built[a].given.locale
        /\ \E k \in DOMAIN agents.built[a].trace :
               LET e == agents.built[a].trace[k]
               IN  /\ e.ev = "prompt"
                   /\ e.on # agents.built[a].given.locale
                   /\ e.arg = agents.built[a].given.locale

\* The names an agent was asked to interrupt before.
Listed(a) ==
    IF agents.built[a].given.interrupt_before_tools = NoneV
    THEN {}
    ELSE agents.built[a].given.interrupt_before_tools[1]

\* C17: a tool named in the interrupt list raises the suspension signal
\* before it executes and executes only after an approving resume; a tool not
\* named is handed to the agent unmodified and executes on the call; with no
\* list or an empty list the agent has the original tool set.
C17_InterruptBeforeListed ==
    \A a \in Built :
        LET agent == agents.built[a]
            tr == agent.trace
        IN  /\ Listed(a) = {} => agent.tools = agent.given.tools
            /\ \A n \in DOMAIN agent.given.tools :
                   n \notin Listed(a) => agent.tools[n] = agent.given.tools[n]
            /\ DOMAIN agent.tools = DOMAIN agent.given.tools
            /\ \A k \in DOMAIN tr :
                   tr[k].ev = "exec" =>
                       IF tr[k].arg \in Listed(a)
                       THEN /\ k > 3
                            /\ tr[k - 1] = [ev |-> "resume", arg |-> "approve"]
                            /\ tr[k - 2] = [ev |-> "interrupt", arg |-> tr[k].arg]
                            /\ tr[k - 3] = [ev |-> "call", arg |-> tr[k].arg]
                       ELSE /\ k > 1
                            /\ tr[k - 1] = [ev |-> "call", arg |-> tr[k].arg]

\* One agent was built with a list and executed a listed tool after approval;
\* another was built with an empty list and executed the same tool directly.
C17_Witness ==
    \E a \in Built, b \in Built :
        /\ Listed(a) # {}
        /\ agents.built[b].given.interrupt_before_tools = Some({})
        /\ \E k \in DOMAIN agents.built[a].trace :
               /\ agents.built[a].trace[k].ev = "exec"
               /\ agents.built[a].trace[k].arg \in Listed(a)
        /\ \E k \in DOMAIN agents.built[b].trace :
               /\ agents.built[b].trace[k].ev = "exec"
               /\ agents.built[b].trace[k].arg = "python_repl_tool"

\* C18: the run of every request has, for max_step_num, max_plan_iterations,
\* enable_clarification and enable_background_investigation, the value the
\* request supplies (0 and false included), and the server default only when
\* the request leaves the field unset.
C18_RequestConfigHonoured ==
    \A i \in DOMAIN requests :
        LET body == requests[i].body
        IN  /\ Run(i).max_step_num =
                   IfNotNone(body.max_step_num, default_max_step_num)
            /\ Run(i).max_plan_iterations =
                   IfNotNone(body.max_plan_iterations, default_max_plan_iterations)
            /\ Run(i).enable_clarification =
                   IfNotNone(body.enable_clarification, settings_enable_clarification)
            /\ Run(i).enable_background_investigation =
                   IfNotNone(body.enable_background_investigation,
                             settings_enable_background_investigation)

\* C19: call_tool always returns a text and never raises: an unknown tool
\* name gives 'Unknown tool'; a missing or empty query gives an error message
\* and no request is sent to the research API; a status other than 200 gives
\* an error message that contains the status; an exception raised while the
\* tool executes is turned into an error message.
C19_CallToolAlwaysText ==
    /\ \A k \in DOMAIN mcp :
           mcp[k].raw # NoneV =>
               LET c == mcp[k]
                   r == c.result[1]
               IN  /\ c.result # NoneV
                   /\ r.kind = "text"
                   /\ c.name \notin Tools =>
                          r.msg = "Unknown tool" /\ r.detail = c.name /\ c.posts = 0
                   /\ c.name \in Tools /\ c.mapping /\ c.query \in {NoneV, Some("")} =>
                          /\ r.msg = "Error: 'query' parameter is required"
                          /\ c.posts = 0
                   /\ c.status_code \notin {0, 200} =>
                          r.msg = "Research API error" /\ r.status = c.status_code
                   /\ c.raw[1].kind = "raise" =>
                          /\ r.msg = "Error executing research"
                          /\ r.detail = c.raw[1].detail
                   /\ c.posts = 0 => c.slot = 0
    /\ \A i \in DOMAIN requests : \E k \in DOMAIN mcp : mcp[k].slot = i

\* A quick_research call got the API's 500 and returned the error text with
\* the status; a second call without a query returned the error text and the
\* API received nothing from it.
C19_Witness ==
    /\ Len(mcp) = 2
    /\ Len(requests) = 1
    /\ mcp[1].status_code = 500
    /\ mcp[1].result = Some(Text("Research API error", "", 500))
    /\ mcp[2].name \in Tools /\ mcp[2].mapping /\ mcp[2].query = Some("")
    /\ mcp[2].posts = 0
    /\ mcp[2].result = Some(Text("Error: 'query' parameter is required", "", 0))

====
